---- MODULE Spec2Model ----
(***************************************************************************)
(* Username/password authentication service: credential hashing            *)
(* (app/utils/security.py), token codec (app/utils/security.py), user      *)
(* store (app/crud/user.py), identity resolver (app/dependencies/auth.py)  *)
(* and the register / login / me handlers (app/routers/auth.py).           *)
(*                                                                         *)
(* Time is counted in whole seconds since the epoch of the run: the token  *)
(* library stores exp as an integer number of seconds.                     *)
(***************************************************************************)
EXTENDS Integers, FiniteSets, Sequences, TLC

VARIABLES
    users,      \* the users table: a set of rows
    now,        \* the clock, in seconds
    held,       \* the token a client kept from a successful login
    orphaned,   \* history: the row the held token names by id was deleted
    resp,       \* the last request and its response
    pending     \* register requests in progress, each in a worker thread

vars == <<users, now, held, orphaned, resp, pending>>

(***************************************************************************)
(* Bounds of the model.                                                    *)
(***************************************************************************)
MaxId == 2          \* ids handed out or written by update_user are 1..MaxId
MaxSalt == 1        \* salts drawn by hash_password are 1..MaxSalt
MaxNow == 1801      \* the clock stops here
MaxWorkers == 2     \* worker threads that serve register requests at once
MaxHashCalls == 2   \* hash_password calls in one run of the hasher on its own
MaxResolvers == 1   \* requests to /me in flight at once
FarFuture == 99999  \* an exp a caller writes to have a token that never expires

(***************************************************************************)
(* Program constants (app/utils/security.py).                              *)
(***************************************************************************)
SECRET_KEY == "your-secret-key-change-in-production"
ALGORITHM == "HS256"
ACCESS_TOKEN_EXPIRE_MINUTES == 30

(***************************************************************************)
(* Input alphabets.  "bob@x.io" is admissible both as a username (3..50    *)
(* characters, no other restriction) and as an e-mail address.             *)
(***************************************************************************)
Usernames == {"alice", "bob@x.io"}
Emails == {"al@x.io", "bob@x.io"}
Passwords == {"secret1", "secret2"}
Identifiers == Usernames \cup Emails \cup {"ghost"}
Ids == 1..MaxId
Salts == 1..MaxSalt
Workers == 1..MaxWorkers
TickSteps == {ACCESS_TOKEN_EXPIRE_MINUTES * 60 + 1}

\* Python's None, as the result of a lookup or of verify_token.
None == [none |-> TRUE]

\* JSON null carried as the value of the "sub" claim.
NullSub == "<null>"

(***************************************************************************)
(* Credential hasher.                                                      *)
(***************************************************************************)
\* The bytes of the secret that bcrypt works on: the first 72 (the texts of
\* the model that are this long are ASCII, one byte per character).
KeyBytes(password) ==
    IF Len(password) > 72 THEN SubSeq(password, 1, 72) ELSE password

\* The bcrypt primitive: a one-way function of password and salt.
Crypt(password, salt) == <<"bcrypt", salt, KeyBytes(password)>>

\* Texts handed to the hasher directly: the passwords above, the empty
\* string, texts with other letter case, white space, punctuation and
\* non-ASCII characters (written <U+...>), one with the character U+0000,
\* and two of 73 characters that differ in the last one.
PlainTexts ==
    Passwords \cup
    {"", "Secret1", "secret1 ", "p@$$w0rd!#$%^&*()", "p<U+00E4>ssw<U+00F6>rd",
     "<U+5BC6><U+7801>", "<U+1F511>", "pass<U+0000>word",
     "aaaaaaaaaaaaaaaaaaaaaaaaaaaaaaaaaaaaaaaaaaaaaaaaaaaaaaaaaaaaaaaaaaaaaaaaX",
     "aaaaaaaaaaaaaaaaaaaaaaaaaaaaaaaaaaaaaaaaaaaaaaaaaaaaaaaaaaaaaaaaaaaaaaaaY"}

\* The UTF-8 encoding of the text contains a zero byte.
HasNul(password) == password \in {"pass<U+0000>word"}

\* pwd_context.hash with the salt it drew: "$2b$<cost>$<salt><checksum>".
\* The bcrypt handler refuses a secret with a zero byte (NullPasswordError,
\* a ValueError) before it hashes.
hash_password(password, salt) ==
    IF HasNul(password) THEN [ident |-> "", raised |-> "NullPasswordError"]
    ELSE [ident |-> "$2b$", salt |-> salt, checksum |-> Crypt(password, salt)]

\* A stored string that is not a bcrypt digest (tests/test_user_crud.py:22).
JunkHash == [ident |-> "", raw |-> "hashed_password_123"]

\* pwd_context.verify: "raise" when the hash cannot be identified as bcrypt
\* (UnknownHashError) or the secret has a zero byte (NullPasswordError).
VerifyOutcome(plain_password, hashed_password) ==
    IF hashed_password.ident # "$2b$" THEN "raise"
    ELSE IF HasNul(plain_password) THEN "raise"
    ELSE IF Crypt(plain_password, hashed_password.salt) = hashed_password.checksum
         THEN "true" ELSE "false"

verify_password(plain_password, hashed_password) ==
    VerifyOutcome(plain_password, hashed_password) = "true"

Digests == {hash_password(p, s) : p \in Passwords, s \in Salts}
HashStrings == Digests \cup {JunkHash}

(***************************************************************************)
(* Token codec.                                                            *)
(***************************************************************************)
\* HMAC over header and claims under a key.
Sign(key, alg, header, claims) ==
    [key |-> key, alg |-> alg, header |-> header, claims |-> claims]

\* jwt.encode: header.claims.signature
Encode(claims, key, alg) ==
    [segments |-> 3, header |-> [alg |-> alg, typ |-> "JWT"], claims |-> claims,
     signature |-> Sign(key, alg, [alg |-> alg, typ |-> "JWT"], claims)]

\* data with key k set to v (dict.update)
DictSet(d, k, v) ==
    [x \in DOMAIN d \cup {k} |-> IF x = k THEN v ELSE d[x]]

\* expires_delta is None when omitted; timedelta(0) is falsy in Python.
DeltaTruthy(expires_delta) == expires_delta # None /\ expires_delta.seconds # 0

\* Variant: the caller's claims are not copied into the token.
create_access_token_dropClaims(data, expires_delta, t) ==
    LET expire == IF DeltaTruthy(expires_delta)
                  THEN t + expires_delta.seconds
                  ELSE t + ACCESS_TOKEN_EXPIRE_MINUTES * 60
    IN Encode([exp |-> expire], SECRET_KEY, ALGORITHM)

\* Variant: an exp the caller put among the claims is kept (setdefault).
create_access_token_keepExp(data, expires_delta, t) ==
    LET expire == IF DeltaTruthy(expires_delta)
                  THEN t + expires_delta.seconds
                  ELSE t + ACCESS_TOKEN_EXPIRE_MINUTES * 60
    IN Encode(IF "exp" \in DOMAIN data THEN data ELSE DictSet(data, "exp", expire),
              SECRET_KEY, ALGORITHM)

create_access_token(data, expires_delta, t) ==
    LET expire == IF DeltaTruthy(expires_delta)
                  THEN t + expires_delta.seconds
                  ELSE t + ACCESS_TOKEN_EXPIRE_MINUTES * 60
    IN Encode(DictSet(data, "exp", expire), SECRET_KEY, ALGORITHM)

\* Variant: the expiry claim is not validated.
jwt_decode_noExp(token, key, alg, t) ==
    IF token.segments # 3 \/ "header" \notin DOMAIN token
    THEN [raised |-> "JWTError"]
    ELSE IF token.header.alg # alg THEN [raised |-> "JWTError"]
    ELSE IF token.signature # Sign(key, alg, token.header, token.claims)
    THEN [raised |-> "JWTError"]
    ELSE IF "sub" \in DOMAIN token.claims /\ token.claims.sub = NullSub
    THEN [raised |-> "JWTClaimsError"]
    ELSE [raised |-> "", payload |-> token.claims]

\* Variant: the signature and the algorithm are not verified.
jwt_decode_unverified(token, key, alg, t) ==
    IF token.segments # 3 \/ "header" \notin DOMAIN token
    THEN [raised |-> "JWTError"]
    ELSE IF "exp" \in DOMAIN token.claims /\ token.claims.exp < t
    THEN [raised |-> "ExpiredSignatureError"]
    ELSE IF "sub" \in DOMAIN token.claims /\ token.claims.sub = NullSub
    THEN [raised |-> "JWTClaimsError"]
    ELSE [raised |-> "", payload |-> token.claims]

\* jwt.decode(token, key, algorithms=[alg]) at time t: the claims, or the
\* exception raised.  The token is split and its header parsed, the header's
\* algorithm is looked up in the allowed ones, the signature is verified,
\* then the claims are validated (exp before sub; sub must be a string).
jwt_decode(token, key, alg, t) ==
    IF token.segments # 3 \/ "header" \notin DOMAIN token
    THEN [raised |-> "JWTError"]
    ELSE IF token.header.alg # alg THEN [raised |-> "JWTError"]
    ELSE IF token.signature # Sign(key, alg, token.header, token.claims)
    THEN [raised |-> "JWTError"]
    ELSE IF "exp" \in DOMAIN token.claims /\ token.claims.exp < t
    THEN [raised |-> "ExpiredSignatureError"]
    ELSE IF "sub" \in DOMAIN token.claims /\ token.claims.sub = NullSub
    THEN [raised |-> "JWTClaimsError"]
    ELSE [raised |-> "", payload |-> token.claims]

\* The exceptions `except JWTError` catches: JWTError and its subclasses.
JWTErrors == {"JWTError", "ExpiredSignatureError", "JWTClaimsError"}

\* Variant: only the expiry exception is caught.
verify_token_expiredOnly(token, t) ==
    LET r == jwt_decode(token, SECRET_KEY, ALGORITHM, t) IN
    IF r.raised = "" THEN r.payload
    ELSE IF r.raised = "ExpiredSignatureError" THEN None
    ELSE r

\* Variant: a session check -- a token whose user row is gone or switched off
\* no longer decodes.
verify_token_storeChecked(token, t) ==
    LET r == jwt_decode(token, SECRET_KEY, ALGORITHM, t) IN
    IF r.raised = ""
    THEN IF "user_id" \in DOMAIN r.payload
            /\ ~ \E u \in users : u.id = r.payload.user_id /\ u.is_active
         THEN None ELSE r.payload
    ELSE IF r.raised \in JWTErrors THEN None
    ELSE r

\* Variant: the key is read anew at each call, and it has been replaced once
\* accounts exist.
verify_token_rotatedKey(token, t) ==
    LET r == jwt_decode(token, IF users = {} THEN SECRET_KEY ELSE "rotated-key",
                        ALGORITHM, t) IN
    IF r.raised = "" THEN r.payload
    ELSE IF r.raised \in JWTErrors THEN None
    ELSE r

\* try: jwt.decode(token, SECRET_KEY, algorithms=[ALGORITHM])
\* except JWTError: return None -- any other exception leaves the function.
verify_token(token, t) ==
    LET r == jwt_decode(token, SECRET_KEY, ALGORITHM, t) IN
    IF r.raised = "" THEN r.payload
    ELSE IF r.raised \in JWTErrors THEN None
    ELSE r

(***************************************************************************)
(* User store.                                                             *)
(***************************************************************************)
\* Variant: the filter on the id is lost, the first row is returned.
get_user_by_id_first(db, user_id) ==
    IF db # {} THEN CHOOSE u \in db : TRUE ELSE None

get_user_by_id(db, user_id) ==
    IF \E u \in db : u.id = user_id
    THEN CHOOSE u \in db : u.id = user_id ELSE None

get_user_by_username(db, username) ==
    IF \E u \in db : u.username = username
    THEN CHOOSE u \in db : u.username = username ELSE None

get_user_by_email(db, email) ==
    IF \E u \in db : u.email = email
    THEN CHOOSE u \in db : u.email = email ELSE None

\* Variant: the primary key is the table's only constraint.
TableOk_keyOnly(db) ==
    \A u, v \in db : (u.id = v.id) => u = v

\* The table's constraints: primary key, unique username, unique email.
TableOk(db) ==
    \A u, v \in db :
        (u.id = v.id \/ u.username = v.username \/ u.email = v.email) => u = v

MaxOf(S) == IF S = {} THEN 0 ELSE CHOOSE m \in S : \A x \in S : x <= m

\* Ids the database may hand to a new row: past the largest id in the table
\* (the next rowid, or the next value of a sequence that has run ahead).
NewIds(db) == {i \in Ids : i > MaxOf({u.id : u \in db})}

\* Variant: the whole row is serialized.
UserResponse_wholeRow(u) == u

\* UserResponse: the record without its password hash.
UserResponse(u) ==
    [id |-> u.id, username |-> u.username, email |-> u.email,
     is_active |-> u.is_active]

(***************************************************************************)
(* Identity resolver.                                                      *)
(***************************************************************************)
credentials_exception ==
    [ok |-> FALSE, status |-> 401, detail |-> "Could not validate credentials"]

inactive_exception ==
    [ok |-> FALSE, status |-> 401, detail |-> "User account is inactive"]

\* payload.get("sub") is None: the claim is absent or null
SubIsNone(payload) == "sub" \notin DOMAIN payload \/ payload.sub = NullSub

\* `if user_id:` -- payload.get("user_id") is present and not zero
Truthy(payload) == "user_id" \in DOMAIN payload /\ payload.user_id # 0

\* Variant: the subject is preferred to the id.
LocateUser_subFirst(db, payload) ==
    get_user_by_username(db, payload.sub)

\* Variant: without an id in the token no user is looked up.
LocateUser_idOnly(db, payload) ==
    IF Truthy(payload) THEN get_user_by_id(db, payload.user_id)
    ELSE None

LocateUser(db, payload) ==
    IF Truthy(payload) THEN get_user_by_id(db, payload.user_id)
    ELSE get_user_by_username(db, payload.sub)

\* Variant: the active flag is not looked at.
get_current_user_noActiveCheck(token, db, t) ==
    LET payload == verify_token(token, t) IN
    IF payload = None THEN credentials_exception
    ELSE IF SubIsNone(payload) THEN credentials_exception
    ELSE LET user == LocateUser(db, payload) IN
         IF user = None THEN credentials_exception
         ELSE [ok |-> TRUE, status |-> 200, user |-> user]

\* Variant: a missing subject is not rejected when an id is present.
get_current_user_noSubCheck(token, db, t) ==
    LET payload == verify_token(token, t) IN
    IF payload = None THEN credentials_exception
    ELSE IF SubIsNone(payload) /\ ~ Truthy(payload) THEN credentials_exception
    ELSE LET user == LocateUser(db, payload) IN
         IF user = None THEN credentials_exception
         ELSE IF ~user.is_active THEN inactive_exception
         ELSE [ok |-> TRUE, status |-> 200, user |-> user]

\* Variant: a token with an extra claim passes the active check.
get_current_user_extraClaimBypass(token, db, t) ==
    LET payload == verify_token(token, t) IN
    IF payload = None THEN credentials_exception
    ELSE IF SubIsNone(payload) THEN credentials_exception
    ELSE LET user == LocateUser(db, payload) IN
         IF user = None THEN credentials_exception
         ELSE IF ~user.is_active /\ "extra_claim" \notin DOMAIN payload
         THEN inactive_exception
         ELSE [ok |-> TRUE, status |-> 200, user |-> user]

get_current_user(token, db, t) ==
    LET payload == verify_token(token, t) IN
    IF payload = None THEN credentials_exception
    ELSE IF SubIsNone(payload) THEN credentials_exception
    ELSE LET user == LocateUser(db, payload) IN
         IF user = None THEN credentials_exception
         ELSE IF ~user.is_active THEN inactive_exception
         ELSE [ok |-> TRUE, status |-> 200, user |-> user]

(***************************************************************************)
(* Requests.                                                               *)
(***************************************************************************)
Init ==
    /\ users = {}
    /\ now = 0
    /\ held = None
    /\ orphaned = FALSE
    /\ resp = [op |-> "init"]
    /\ pending = [w \in Workers |-> [pc |-> "idle"]]

\* crud.create_user: INSERT and commit; the commit fails on a duplicate.
\* New rows are active (tests/test_user_crud.py:29).
NewRow(id, username, email, password_hash) ==
    [id |-> id, username |-> username, email |-> email,
     password_hash |-> password_hash, is_active |-> TRUE]

create_user(username, email, password_hash) ==
    \/ /\ \E u \in users : u.username = username \/ u.email = email
       /\ resp' = [op |-> "create_user", raised |-> "IntegrityError"]
       /\ UNCHANGED <<pending, users, now, held, orphaned>>
    \/ /\ ~ \E u \in users : u.username = username \/ u.email = email
       /\ \E id \in NewIds(users) :
            /\ users' = users \cup {NewRow(id, username, email, password_hash)}
            /\ resp' = [op |-> "create_user", raised |-> "", id |-> id]
       /\ UNCHANGED <<pending, now, held, orphaned>>

\* Variant: the e-mail address is not checked, the row is added.
register_noEmailCheck(username, email, password, salt) ==
    IF get_user_by_username(users, username) # None
    THEN /\ resp' = [op |-> "register", status |-> 400,
                     username |-> username, email |-> email,
                     detail |-> "Username already registered"]
         /\ UNCHANGED <<pending, users, now, held, orphaned>>
    ELSE \E id \in NewIds(users) :
         LET new_user == NewRow(id, username, email,
                                hash_password(password, salt))
         IN /\ users' = users \cup {new_user}
            /\ resp' = [op |-> "register", status |-> 201,
                        username |-> username, email |-> email, detail |-> "",
                        password |-> password, body |-> UserResponse(new_user)]
            /\ UNCHANGED <<pending, now, held, orphaned>>

\* Variant: the e-mail address is checked before the username.
register_emailFirst(username, email, password, salt) ==
    IF get_user_by_email(users, email) # None
    THEN /\ resp' = [op |-> "register", status |-> 400,
                     username |-> username, email |-> email,
                     detail |-> "Email already registered"]
         /\ UNCHANGED <<pending, users, now, held, orphaned>>
    ELSE IF get_user_by_username(users, username) # None
    THEN /\ resp' = [op |-> "register", status |-> 400,
                     username |-> username, email |-> email,
                     detail |-> "Username already registered"]
         /\ UNCHANGED <<pending, users, now, held, orphaned>>
    ELSE \E id \in NewIds(users) :
         LET new_user == NewRow(id, username, email,
                                hash_password(password, salt))
         IN /\ users' = users \cup {new_user}
            /\ resp' = [op |-> "register", status |-> 201,
                        username |-> username, email |-> email, detail |-> "",
                        password |-> password, body |-> UserResponse(new_user)]
            /\ UNCHANGED <<pending, now, held, orphaned>>

\* POST /api/auth/register
register(username, email, password, salt) ==
    IF get_user_by_username(users, username) # None
    THEN /\ resp' = [op |-> "register", status |-> 400,
                     username |-> username, email |-> email,
                     detail |-> "Username already registered"]
         /\ UNCHANGED <<pending, users, now, held, orphaned>>
    ELSE IF get_user_by_email(users, email) # None
    THEN /\ resp' = [op |-> "register", status |-> 400,
                     username |-> username, email |-> email,
                     detail |-> "Email already registered"]
         /\ UNCHANGED <<pending, users, now, held, orphaned>>
    ELSE \E id \in NewIds(users) :
         LET new_user == NewRow(id, username, email,
                                hash_password(password, salt))
         IN /\ users' = users \cup {new_user}
            /\ resp' = [op |-> "register", status |-> 201,
                        username |-> username, email |-> email, detail |-> "",
                        password |-> password, body |-> UserResponse(new_user)]
            /\ UNCHANGED <<pending, now, held, orphaned>>

\* EmailStr, in outline: one "@", something before it, and after it a
\* domain with a dot inside.
AtSigns(text) == {i \in 1..Len(text) : SubSeq(text, i, i) = "@"}

IsEmail(text) ==
    /\ Cardinality(AtSigns(text)) = 1
    /\ \A a \in AtSigns(text) :
          /\ a > 1
          /\ \E d \in (a + 2)..(Len(text) - 1) : SubSeq(text, d, d) = "."

\* Variant: the lengths are not constrained.
FieldErrors_noLengths(body) ==
    {f \in {"username", "email", "password"} : f \notin DOMAIN body}
    \cup {f \in {"email"} \cap DOMAIN body : ~ IsEmail(body[f])}

\* UserCreate: the fields of the request body that fail validation.
FieldErrors(body) ==
    {f \in {"username", "email", "password"} : f \notin DOMAIN body}
    \cup {f \in {"username"} \cap DOMAIN body :
              Len(body[f]) < 3 \/ Len(body[f]) > 50}
    \cup {f \in {"email"} \cap DOMAIN body : ~ IsEmail(body[f])}
    \cup {f \in {"password"} \cap DOMAIN body :
              Len(body[f]) < 6 \/ Len(body[f]) > 100}

\* Request bodies of POST /api/auth/register: the well-formed ones and some
\* that are not (tests/test_auth_api.py:143-196).
RegisterBodies ==
    [username : Usernames, email : Emails, password : Passwords]
    \cup {[username |-> "ab", email |-> "al@x.io", password |-> "secret1"],
          [username |-> "", email |-> "al@x.io", password |-> "secret1"],
          [username |-> "uuuuuuuuuuuuuuuuuuuuuuuuuuuuuuuuuuuuuuuuuuuuuuuuuuu",
           email |-> "al@x.io", password |-> "secret1"],
          [username |-> "alice", email |-> "al@x.io", password |-> "12345"],
          [username |-> "alice", email |-> "not-an-email", password |-> "secret1"],
          [username |-> "alice", email |-> "al@x.io"],
          [password |-> "secret1"]}

\* POST /api/auth/register as the framework serves it: the body is
\* validated against UserCreate, and the handler runs only if it passes.
post_register(body, salt) ==
    IF FieldErrors(body) # {}
    THEN /\ resp' = [op |-> "post_register", status |-> 422,
                     detail |-> "ValidationError", loc |-> FieldErrors(body)]
         /\ UNCHANGED <<pending, users, now, held, orphaned>>
    ELSE register(body.username, body.email, body.password, salt)

\* The keyword arguments of update_user: every attribute of a row can be
\* named, and so can names the row does not have.
KwValues(key) ==
    CASE key = "username" -> Usernames
      [] key = "email" -> Emails
      [] key = "is_active" -> BOOLEAN
      [] key = "password_hash" -> HashStrings
      [] key = "id" -> Ids
      [] key = "nonexistent_field" -> {"value"}

KwKeys ==
    {"username", "email", "is_active", "password_hash", "id", "nonexistent_field"}

RowAttrs == {"id", "username", "email", "password_hash", "is_active"}

\* Variant: every keyword is set, whether the row has the attribute or not.
SetAttrs_noHasattr(db_user, kwargs) ==
    [a \in RowAttrs \cup DOMAIN kwargs |->
        IF a \in DOMAIN kwargs THEN kwargs[a] ELSE db_user[a]]

\* for key, value in kwargs.items(): if hasattr(db_user, key): setattr(...)
SetAttrs(db_user, kwargs) ==
    [a \in RowAttrs |-> IF a \in DOMAIN kwargs THEN kwargs[a] ELSE db_user[a]]

\* crud.update_user: None when no row has the id; else the attributes are
\* set and committed (the commit raises on a duplicate) and the refreshed
\* row is returned.  The record of the call keeps the keywords that were
\* not attributes of the row.
update_user(user_id, kwargs) ==
    LET db_user == get_user_by_id(users, user_id) IN
    IF db_user = None
    THEN /\ resp' = [op |-> "update_user", raised |-> "", found |-> FALSE,
                     ignored |-> {}, result |-> None]
         /\ UNCHANGED <<pending, users, now, held, orphaned>>
    ELSE LET updated == SetAttrs(db_user, kwargs)
             table == (users \ {db_user}) \cup {updated}
         IN IF TableOk(table) /\ Cardinality(table) = Cardinality(users)
            THEN /\ users' = table
                 /\ resp' = [op |-> "update_user", raised |-> "", found |-> TRUE,
                             ignored |-> DOMAIN kwargs \ RowAttrs,
                             result |-> updated]
                 /\ UNCHANGED <<pending, now, held, orphaned>>
            ELSE /\ resp' = [op |-> "update_user", raised |-> "IntegrityError",
                             found |-> TRUE,
                             ignored |-> DOMAIN kwargs \ RowAttrs,
                             result |-> None]
                 /\ UNCHANGED <<pending, users, now, held, orphaned>>

\* Variant: the filter on the id is lost, every row is deleted.
delete_user_allRows(user_id) ==
    IF users = {}
    THEN /\ resp' = [op |-> "delete_user", user_id |-> user_id, result |-> FALSE]
         /\ UNCHANGED <<pending, users, now, held, orphaned>>
    ELSE /\ users' = {}
         /\ orphaned' = (orphaned \/ held # None)
         /\ resp' = [op |-> "delete_user", user_id |-> user_id, result |-> TRUE]
         /\ UNCHANGED <<pending, now, held>>

\* crud.delete_user
delete_user(user_id) ==
    LET db_user == get_user_by_id(users, user_id) IN
    IF db_user = None
    THEN /\ resp' = [op |-> "delete_user", user_id |-> user_id, result |-> FALSE]
         /\ UNCHANGED <<pending, users, now, held, orphaned>>
    ELSE /\ users' = users \ {db_user}
         /\ orphaned' = (orphaned \/ (held # None /\ held.claims.user_id = user_id))
         /\ resp' = [op |-> "delete_user", user_id |-> user_id, result |-> TRUE]
         /\ UNCHANGED <<pending, now, held>>

\* Variant: no fallback to the e-mail address.
LoginUser_usernameOnly(db, identifier) ==
    get_user_by_username(db, identifier)

\* Variant: the e-mail address is tried first.
LoginUser_emailFirst(db, identifier) ==
    IF get_user_by_email(db, identifier) # None
    THEN get_user_by_email(db, identifier)
    ELSE get_user_by_username(db, identifier)

\* The store reads login makes, in order: the second only `if not user`.
LoginLookups(db, identifier) ==
    IF get_user_by_username(db, identifier) # None
    THEN <<"username">>
    ELSE <<"username", "email">>

\* The user login works on: by username first, then by e-mail.
LoginUser(db, identifier) ==
    IF get_user_by_username(db, identifier) # None
    THEN get_user_by_username(db, identifier)
    ELSE get_user_by_email(db, identifier)

\* Variant: the active flag is not looked at.
LoginResponse_noActiveCheck(db, identifier, password, t) ==
    LET user == LoginUser(db, identifier) IN
    IF user = None
    THEN [status |-> 401, detail |-> "Incorrect username or password"]
    ELSE IF VerifyOutcome(password, user.password_hash) = "raise"
    THEN [status |-> 500, detail |-> "UnknownHashError"]
    ELSE IF ~ verify_password(password, user.password_hash)
    THEN [status |-> 401, detail |-> "Incorrect username or password"]
    ELSE [status |-> 200, detail |-> "", token_type |-> "bearer",
          access_token |->
             create_access_token([sub |-> user.username, user_id |-> user.id],
                                 None, t)]

\* The response of POST /api/auth/login; 500 is an exception that no handler
\* converts.
LoginResponse(db, identifier, password, t) ==
    LET user == LoginUser(db, identifier) IN
    IF user = None
    THEN [status |-> 401, detail |-> "Incorrect username or password"]
    ELSE IF VerifyOutcome(password, user.password_hash) = "raise"
    THEN [status |-> 500, detail |-> "UnknownHashError"]
    ELSE IF ~ verify_password(password, user.password_hash)
    THEN [status |-> 401, detail |-> "Incorrect username or password"]
    ELSE IF ~ user.is_active
    THEN [status |-> 401, detail |-> "User account is inactive"]
    ELSE [status |-> 200, detail |-> "", token_type |-> "bearer",
          access_token |->
             create_access_token([sub |-> user.username, user_id |-> user.id],
                                 None, t)]

\* Variant: a login with a wrong password switches the account off.
login_lockout(identifier, password) ==
    LET r == LoginResponse(users, identifier, password, now)
        user == LoginUser(users, identifier) IN
    /\ resp' = [op |-> "login", username |-> identifier,
                lookups |-> LoginLookups(users, identifier),
                status |-> r.status, detail |-> r.detail,
                access_token |-> IF r.status = 200 THEN r.access_token ELSE None]
    /\ users' = IF user # None /\ r.status = 401
                THEN (users \ {user}) \cup {[user EXCEPT !.is_active = FALSE]}
                ELSE users
    /\ UNCHANGED <<pending, now, held, orphaned>>

\* POST /api/auth/login
login(identifier, password) ==
    LET r == LoginResponse(users, identifier, password, now) IN
    /\ resp' = [op |-> "login", username |-> identifier,
                lookups |-> LoginLookups(users, identifier),
                status |-> r.status, detail |-> r.detail,
                access_token |-> IF r.status = 200 THEN r.access_token ELSE None]
    /\ UNCHANGED <<pending, users, now, held, orphaned>>

\* The client keeps the token of the login response it has just received,
\* in place of the one it had.
keep_token ==
    /\ resp.op = "login" /\ resp.status = 200
    /\ held' = resp.access_token
    /\ orphaned' = FALSE
    /\ UNCHANGED <<pending, users, now, resp>>

\* Tokens a caller can present besides the one it holds: minted with
\* create_access_token from chosen claims, signed with another key or
\* algorithm, or not a token at all.
ClaimSets ==
    {[user_id |-> i] : i \in 0..MaxId}
    \cup {[sub |-> s] : s \in Usernames \cup {NullSub}}
    \cup {[sub |-> s, user_id |-> i] : s \in Usernames \cup {NullSub}, i \in 0..MaxId}

\* Claim sets handed to create_access_token directly: those above and one
\* that brings an "exp" of its own.
CodecClaimSets == ClaimSets \cup {[sub |-> "alice", exp |-> 5]}

Deltas == {None, [seconds |-> -1], [seconds |-> 0], [seconds |-> 3600]}

Minted(t) ==
    {create_access_token(d, None, t) : d \in ClaimSets}
    \cup {create_access_token([sub |-> s, user_id |-> 1], e, t) :
                s \in Usernames, e \in Deltas}

Forged(t) ==
    {Encode([sub |-> "alice", user_id |-> 1, exp |-> t + 3600], "wrong-secret-key", "HS256"),
     Encode([sub |-> "alice", user_id |-> 1, exp |-> t + 3600], SECRET_KEY, "HS384"),
     [Encode([sub |-> "alice", user_id |-> 1, exp |-> t + 3600], SECRET_KEY, "HS384")
         EXCEPT !.header = [alg |-> "HS256", typ |-> "JWT"]],
     [segments |-> 0, raw |-> ""],
     [segments |-> 1, raw |-> "invalid_token_string"],
     [segments |-> 3, raw |-> "abc.def.ghi"],
     [segments |-> 6, raw |-> "this.is.not.a.valid.token"]}

Presentable(t) == Minted(t) \cup Forged(t) \cup (IF held = None THEN {} ELSE {held})

\* What a request to /me carried, for the record of the request.
TokenKind(token, t) ==
    IF "header" \notin DOMAIN token THEN "malformed"
    ELSE IF token.signature.key # SECRET_KEY \/ token.signature.alg # ALGORITHM
    THEN "not_ours"
    ELSE IF verify_token(token, t) = None THEN "undecodable"
    ELSE IF "sub" \notin DOMAIN token.claims THEN "no_sub"
    ELSE IF "user_id" \notin DOMAIN token.claims THEN "sub_only"
    ELSE IF token.claims.user_id = 0 THEN "sub_and_zero_id"
    ELSE "sub_and_id"

\* GET /api/auth/me
me(token) ==
    LET r == get_current_user(token, users, now) IN
    /\ resp' = [op |-> "me", with_held |-> (token = held),
                kind |-> TokenKind(token, now),
                result |-> r,
                body |-> IF r.ok THEN UserResponse(r.user)
                         ELSE [detail |-> r.detail]]
    /\ UNCHANGED <<pending, users, now, held, orphaned>>

\* Time passes.
Tick(d) ==
    /\ now + d <= MaxNow
    /\ now' = now + d
    /\ resp' = [op |-> "tick"]
    /\ UNCHANGED <<pending, users, held, orphaned>>

\* One attribute per call, or one attribute and a name the row does not have
\* (tests/test_user_crud.py:192).
Kwargs ==
    UNION {[{k} -> KwValues(k)] : k \in KwKeys}
    \cup {[nonexistent_field |-> "value", username |-> u] : u \in Usernames}

\* The requests and the store operations, with no client that keeps tokens.
NextServer ==
    \/ \E body \in RegisterBodies, s \in Salts : post_register(body, s)
    \/ \E un \in Usernames, em \in Emails, h \in HashStrings :
            create_user(un, em, h)
    \/ \E id \in Ids, kw \in Kwargs : update_user(id, kw)
    \/ \E id \in Ids : delete_user(id)
    \/ \E ident \in Identifiers, pw \in Passwords : login(ident, pw)
    \/ \E tok \in Presentable(now) : me(tok)
    \/ \E d \in TickSteps : Tick(d)

SpecServer == Init /\ [][NextServer]_vars

\* The client presents the token it holds.
present_token ==
    /\ held # None
    /\ me(held)

\* A client that registers, logs in, keeps the token and presents it later,
\* while rows are updated and deleted and time passes.  Every table that
\* create_user can produce is also produced by a registration followed by
\* updates, and the tokens of other callers are the subject of SpecServer.
Next ==
    \/ \E body \in RegisterBodies, s \in Salts : post_register(body, s)
    \/ \E id \in Ids, kw \in Kwargs : update_user(id, kw)
    \/ \E id \in Ids : delete_user(id)
    \/ \E ident \in Identifiers, pw \in Passwords : login(ident, pw)
    \/ keep_token
    \/ present_token
    \/ \E d \in TickSteps : Tick(d)

Spec == Init /\ [][Next]_vars

(***************************************************************************)
(* Register requests served at the same time.  The handler is a plain      *)
(* function, so each request runs in its own worker thread with its own    *)
(* session; its two lookups and its insert are separate statements on the  *)
(* database, and other requests' statements come between them.             *)
(***************************************************************************)
\* A request reaches a free worker.
register_accept(w, username, email, password) ==
    /\ pending[w].pc = "idle"
    /\ pending' = [pending EXCEPT ![w] =
                      [pc |-> "check_username", username |-> username,
                       email |-> email, password |-> password]]
    /\ UNCHANGED <<users, now, held, orphaned, resp>>

\* routers/auth.py: existing_user = get_user_by_username(...)
register_check_username(w) ==
    /\ pending[w].pc = "check_username"
    /\ pending' = [pending EXCEPT ![w] =
          IF get_user_by_username(users, pending[w].username) # None
          THEN [pc |-> "done", username |-> pending[w].username,
                email |-> pending[w].email, status |-> 400,
                detail |-> "Username already registered"]
          ELSE [pending[w] EXCEPT !.pc = "check_email"]]
    /\ UNCHANGED <<users, now, held, orphaned, resp>>

\* routers/auth.py: existing_email = get_user_by_email(...)
register_check_email(w) ==
    /\ pending[w].pc = "check_email"
    /\ pending' = [pending EXCEPT ![w] =
          IF get_user_by_email(users, pending[w].email) # None
          THEN [pc |-> "done", username |-> pending[w].username,
                email |-> pending[w].email, status |-> 400,
                detail |-> "Email already registered"]
          ELSE [pending[w] EXCEPT !.pc = "create"]]
    /\ UNCHANGED <<users, now, held, orphaned, resp>>

\* routers/auth.py: hash_password and crud.create_user.  The commit raises
\* IntegrityError on a duplicate; the handler has no except clause, so the
\* request ends with the server's answer to an unhandled exception.
register_create(w, salt) ==
    /\ pending[w].pc = "create"
    /\ \/ /\ \E u \in users : u.username = pending[w].username
                               \/ u.email = pending[w].email
          /\ pending' = [pending EXCEPT ![w] =
                [pc |-> "done", username |-> pending[w].username,
                 email |-> pending[w].email, status |-> 500,
                 detail |-> "IntegrityError"]]
          /\ UNCHANGED users
       \/ /\ ~ \E u \in users : u.username = pending[w].username
                                 \/ u.email = pending[w].email
          /\ \E id \in NewIds(users) :
                /\ users' = users \cup
                      {NewRow(id, pending[w].username, pending[w].email,
                              hash_password(pending[w].password, salt))}
                /\ pending' = [pending EXCEPT ![w] =
                      [pc |-> "done", username |-> pending[w].username,
                       email |-> pending[w].email, status |-> 201,
                       detail |-> ""]]
    /\ UNCHANGED <<now, held, orphaned, resp>>

\* The response is sent and the worker is free again.
register_reply(w) ==
    /\ pending[w].pc = "done"
    /\ \A v \in Workers : pending[v].pc \in {"idle", "done"}
    /\ pending' = [v \in Workers |-> [pc |-> "idle"]]
    /\ UNCHANGED <<users, now, held, orphaned, resp>>

NextRace ==
    \/ \E w \in Workers, un \in Usernames, em \in Emails, pw \in Passwords :
            register_accept(w, un, em, pw)
    \/ \E w \in Workers : register_check_username(w)
    \/ \E w \in Workers : register_check_email(w)
    \/ \E w \in Workers, s \in Salts : register_create(w, s)
    \/ \E w \in Workers : register_reply(w)

SpecRace == Init /\ [][NextRace]_vars

(***************************************************************************)
(* get_current_user, statement by statement.  A request to /me holds its   *)
(* token, the payload once decoded and the row once loaded; the store is   *)
(* read by one statement only, and other requests' commits come before or  *)
(* after it.  `steps` lists the statements the request has run and `reads` *)
(* counts its queries.                                                     *)
(***************************************************************************)
Resolvers == 1..MaxResolvers

\* The order of the statements in dependencies/auth.py.
ResolverOrder == <<"decode", "subject", "lookup", "active">>

\* A request with a bearer token reaches the dependency.
me_start(w, token) ==
    /\ pending[w].pc = "idle"
    /\ pending' = [pending EXCEPT ![w] =
                      [pc |-> "start", token |-> token, payload |-> None,
                       user |-> None, steps |-> <<>>, reads |-> 0,
                       result |-> None]]
    /\ UNCHANGED <<users, now, held, orphaned, resp>>

\* payload = verify_token(token); if payload is None: raise
me_decode(w) ==
    /\ pending[w].pc = "start"
    /\ LET payload == verify_token(pending[w].token, now) IN
       pending' = [pending EXCEPT ![w] =
          IF payload = None
          THEN [pending[w] EXCEPT !.pc = "rejected",
                                  !.steps = Append(@, "decode"),
                                  !.result = credentials_exception]
          ELSE [pending[w] EXCEPT !.pc = "token_decoded",
                                  !.steps = Append(@, "decode"),
                                  !.payload = payload]]
    /\ UNCHANGED <<users, now, held, orphaned, resp>>

\* Variant: a missing subject is let through when an id is present.
me_subject_idSuffices(w) ==
    /\ pending[w].pc = "token_decoded"
    /\ pending' = [pending EXCEPT ![w] =
          IF SubIsNone(pending[w].payload) /\ ~ Truthy(pending[w].payload)
          THEN [pending[w] EXCEPT !.pc = "rejected",
                                  !.steps = Append(@, "subject"),
                                  !.result = credentials_exception]
          ELSE [pending[w] EXCEPT !.pc = "subject_present",
                                  !.steps = Append(@, "subject")]]
    /\ UNCHANGED <<users, now, held, orphaned, resp>>

\* username = payload.get("sub"); if username is None: raise
me_subject(w) ==
    /\ pending[w].pc = "token_decoded"
    /\ pending' = [pending EXCEPT ![w] =
          IF SubIsNone(pending[w].payload)
          THEN [pending[w] EXCEPT !.pc = "rejected",
                                  !.steps = Append(@, "subject"),
                                  !.result = credentials_exception]
          ELSE [pending[w] EXCEPT !.pc = "subject_present",
                                  !.steps = Append(@, "subject")]]
    /\ UNCHANGED <<users, now, held, orphaned, resp>>

\* The row another request in flight has loaded for the same token, if any.
CachedRow(w) ==
    LET others == {v \in Workers : /\ v # w
                                   /\ "token" \in DOMAIN pending[v]
                                   /\ pending[v].token = pending[w].token
                                   /\ pending[v].user # None}
    IN IF others = {} THEN None ELSE pending[CHOOSE v \in others : TRUE].user

\* Variant: the row is taken from a cache keyed by the token when it is there.
me_lookup_cached(w) ==
    /\ pending[w].pc = "subject_present"
    /\ LET user == IF CachedRow(w) # None THEN CachedRow(w)
                   ELSE LocateUser(users, pending[w].payload) IN
       pending' = [pending EXCEPT ![w] =
          IF user = None
          THEN [pending[w] EXCEPT !.pc = "rejected",
                                  !.steps = Append(@, "lookup"),
                                  !.reads = @ + 1,
                                  !.result = credentials_exception]
          ELSE [pending[w] EXCEPT !.pc = "identity_located",
                                  !.steps = Append(@, "lookup"),
                                  !.reads = @ + 1,
                                  !.user = user]]
    /\ UNCHANGED <<users, now, held, orphaned, resp>>

\* user = get_user_by_id(...) or get_user_by_username(...); if user is None:
\* raise
me_lookup(w) ==
    /\ pending[w].pc = "subject_present"
    /\ LET user == LocateUser(users, pending[w].payload) IN
       pending' = [pending EXCEPT ![w] =
          IF user = None
          THEN [pending[w] EXCEPT !.pc = "rejected",
                                  !.steps = Append(@, "lookup"),
                                  !.reads = @ + 1,
                                  !.result = credentials_exception]
          ELSE [pending[w] EXCEPT !.pc = "identity_located",
                                  !.steps = Append(@, "lookup"),
                                  !.reads = @ + 1,
                                  !.user = user]]
    /\ UNCHANGED <<users, now, held, orphaned, resp>>

\* if not user.is_active: raise; return user.  The flag is the one of the row
\* as it was loaded.
me_active(w) ==
    /\ pending[w].pc = "identity_located"
    /\ pending' = [pending EXCEPT ![w] =
          IF ~ pending[w].user.is_active
          THEN [pending[w] EXCEPT !.pc = "rejected",
                                  !.steps = Append(@, "active"),
                                  !.result = inactive_exception]
          ELSE [pending[w] EXCEPT !.pc = "resolved",
                                  !.steps = Append(@, "active"),
                                  !.result = [ok |-> TRUE, status |-> 200,
                                              user |-> pending[w].user]]]
    /\ UNCHANGED <<users, now, held, orphaned, resp>>

\* The request is answered: the user, or the exception as a 401.
me_reply(w) ==
    /\ pending[w].pc \in {"resolved", "rejected"}
    /\ resp' = [op |-> "me_reply", outcome |-> pending[w].pc,
                steps |-> pending[w].steps, reads |-> pending[w].reads,
                result |-> pending[w].result]
    /\ pending' = [pending EXCEPT ![w] = [pc |-> "idle"]]
    /\ UNCHANGED <<users, now, held, orphaned>>

\* Tokens with claims the resolver has no use for (extra_claim,
\* another_claim: tests/test_auth_dependency.py:265-278), and one with a lifetime of its own.
ExtraClaimTokens(t) ==
    {create_access_token([sub |-> "alice", user_id |-> 1, extra_claim |-> "extra_value",
                          another_claim |-> 12345], None, t),
     create_access_token([sub |-> "alice", extra_claim |-> "extra_value"], None, t),
     create_access_token([sub |-> "alice", user_id |-> 1], [seconds |-> 3600], t)}

\* The tokens of the requests: one of each kind the statements tell apart
\* (not a token, another key, expired, no subject, null subject, subject
\* alone, subject and id), and those with extra claims.
ResolverTokens(t) ==
    ExtraClaimTokens(t) \cup
    {[segments |-> 1, raw |-> "invalid_token_string"],
     Encode([sub |-> "alice", user_id |-> 1, exp |-> t + 3600], "wrong-secret-key", "HS256"),
     create_access_token([sub |-> "alice", user_id |-> 1], [seconds |-> -1], t)}
    \cup {create_access_token(d, None, t) :
              d \in {[user_id |-> 1], [sub |-> NullSub, user_id |-> 1],
                     [sub |-> "alice"], [sub |-> "alice", user_id |-> 1],
                     [sub |-> "alice", user_id |-> 2]}}

\* What the other requests do to the store meanwhile: accounts are
\* registered, switched off and on, and deleted.
ResolverBodies == {b \in RegisterBodies : FieldErrors(b) = {} /\ b.password = "secret1"}

ResolverKwargs == {kw \in Kwargs : DOMAIN kw \in {{"is_active"}, {"username"}}}

NextResolver ==
    \/ \E body \in ResolverBodies, s \in Salts : post_register(body, s)
    \/ \E id \in Ids, kw \in ResolverKwargs : update_user(id, kw)
    \/ \E id \in Ids : delete_user(id)
    \/ \E w \in Resolvers, tok \in ResolverTokens(now) : me_start(w, tok)
    \/ \E w \in Resolvers : me_decode(w)
    \/ \E w \in Resolvers : me_subject(w)
    \/ \E w \in Resolvers : me_lookup(w)
    \/ \E w \in Resolvers : me_active(w)
    \/ \E w \in Resolvers : me_reply(w)

SpecResolver == Init /\ [][NextResolver]_vars

\* A client that logs in, keeps the token and sends it to /me, more than one
\* request at a time, while accounts are switched off and on.
me_start_held(w) ==
    /\ held # None
    /\ me_start(w, held)

\* The accounts of this client's scenario: alice and one more.
ReactivationBodies ==
    {[username |-> "alice", email |-> "al@x.io", password |-> "secret1"],
     [username |-> "bob@x.io", email |-> "bob@x.io", password |-> "secret1"]}

NextReactivation ==
    \/ \E body \in ReactivationBodies, s \in Salts : post_register(body, s)
    \/ \E ident \in Usernames : login(ident, "secret1")
    \/ keep_token
    \/ \E id \in Ids, b \in BOOLEAN : update_user(id, [is_active |-> b])
    \/ \E w \in Workers : me_start_held(w)
    \/ \E w \in Workers : me_decode(w)
    \/ \E w \in Workers : me_subject(w)
    \/ \E w \in Workers : me_lookup(w)
    \/ \E w \in Workers : me_active(w)
    \/ \E w \in Workers : me_reply(w)
    \/ \E d \in TickSteps : Tick(d)

SpecReactivation == Init /\ [][NextReactivation]_vars

\* Requests to /me with a token that names its user by the subject alone
\* (tests/test_auth_dependency.py:106-114), more than one at a time, while
\* accounts are registered, renamed and deleted.
SubjectOnlyTokens(t) == {create_access_token([sub |-> s], None, t) : s \in Usernames}

NextTakeover ==
    \/ \E body \in ReactivationBodies, s \in Salts : post_register(body, s)
    \/ \E id \in Ids, u \in Usernames : update_user(id, [username |-> u])
    \/ \E id \in Ids : delete_user(id)
    \/ \E w \in Workers, tok \in SubjectOnlyTokens(now) : me_start(w, tok)
    \/ \E w \in Workers : me_decode(w)
    \/ \E w \in Workers : me_subject(w)
    \/ \E w \in Workers : me_lookup(w)
    \/ \E w \in Workers : me_active(w)
    \/ \E w \in Workers : me_reply(w)

SpecTakeover == Init /\ [][NextTakeover]_vars

(***************************************************************************)
(* The credential hasher called on its own.                                *)
(***************************************************************************)
\* The calls of hash_password made so far in the run, in order: the text,
\* the salt drawn and what was returned.
Issued == IF "issued" \in DOMAIN resp THEN resp.issued ELSE <<>>

\* Salts of a run: each call draws a salt no earlier call of the run drew
\* (16 random bytes per call).
HashSalts == 1..MaxHashCalls

\* Stored strings handed to verify_password: what hash_password returned
\* earlier in the run, or a string that is no digest.
HashInputs ==
    {Issued[i].result : i \in {k \in 1..Len(Issued) : Issued[k].result.ident = "$2b$"}}
    \cup {JunkHash}

HashCall(password, salt) ==
    /\ Len(Issued) < MaxHashCalls
    /\ \A i \in 1..Len(Issued) : Issued[i].salt # salt
    /\ resp' = [op |-> "hash_password", password |-> password,
                result |-> hash_password(password, salt),
                issued |-> Append(Issued,
                                  [password |-> password, salt |-> salt,
                                   result |-> hash_password(password, salt)])]
    /\ UNCHANGED <<users, now, held, orphaned, pending>>

VerifyCall(plain_password, hashed_password) ==
    /\ resp' = [op |-> "verify_password", plain_password |-> plain_password,
                hashed_password |-> hashed_password,
                result |-> VerifyOutcome(plain_password, hashed_password),
                issued |-> Issued]
    /\ UNCHANGED <<users, now, held, orphaned, pending>>

NextHasher ==
    \/ \E p \in PlainTexts, s \in HashSalts : HashCall(p, s)
    \/ \E p \in PlainTexts, h \in HashInputs : VerifyCall(p, h)

SpecHasher == Init /\ [][NextHasher]_vars

(***************************************************************************)
(* The token codec on its own: create_access_token and verify_token are    *)
(* called with claims and tokens of the caller's choosing while time       *)
(* passes.                                                                 *)
(***************************************************************************)
\* The caller's dict after create_access_token has returned.  The function
\* binds to_encode to data.copy(), a new dict with the items of data, and
\* update() writes to the dict to_encode is bound to.
DataAfterIssue(data, expires_delta, t) ==
    LET expire == IF DeltaTruthy(expires_delta)
                  THEN t + expires_delta.seconds
                  ELSE t + ACCESS_TOKEN_EXPIRE_MINUTES * 60
        copied == [data |-> data, to_encode |-> data]
        updated == [copied EXCEPT !.to_encode = DictSet(@, "exp", expire)]
    IN updated.data

\* Claims handed to create_access_token: those of the requests, some with an
\* exp of the caller's own, in the past and far in the future.
IssueInputs ==
    CodecClaimSets
    \cup {[sub |-> "alice", user_id |-> 1, exp |-> x] : x \in {0, FarFuture}}

\* Times at which the tokens handed to verify_token were issued.
IssueTimes == {0, now}

IssueCall(data, expires_delta) ==
    /\ resp' = [op |-> "create_access_token", at |-> now,
                data |-> data, expires_delta |-> expires_delta,
                data_after |-> DataAfterIssue(data, expires_delta, now),
                token |-> create_access_token(data, expires_delta, now)]
    /\ UNCHANGED <<users, now, held, orphaned, pending>>

DecodeCall(token) ==
    /\ resp' = [op |-> "verify_token", at |-> now, token |-> token,
                payload |-> verify_token(token, now)]
    /\ UNCHANGED <<users, now, held, orphaned, pending>>

NextCodec ==
    \/ \E d \in IssueInputs, e \in Deltas : IssueCall(d, e)
    \/ \E d \in IssueInputs, e \in Deltas, t0 \in IssueTimes :
            DecodeCall(create_access_token(d, e, t0))
    \/ \E tok \in Forged(now) : DecodeCall(tok)
    \/ \E d \in TickSteps : Tick(d)

SpecCodec == Init /\ [][NextCodec]_vars

(***************************************************************************)
(* Properties.                                                             *)
(***************************************************************************)
\* The outcome "resolved to user u".
Resolved(u) == [ok |-> TRUE, status |-> 200, user |-> u]

\* password is the password the stored hash of u was made from.
Matches(u, password) ==
    /\ u.password_hash.ident = "$2b$"
    /\ u.password_hash.checksum = Crypt(password, u.password_hash.salt)

InvalidCredentials == [status |-> 401, detail |-> "Incorrect username or password"]

AccountInactive == [status |-> 401, detail |-> "User account is inactive"]

Outcome(r) == [status |-> r.status, detail |-> r.detail]

HeldUnexpired == held # None /\ held.claims.exp >= now

\* C1: a token issued by login, whose user (the row with the id the token
\* names) is inactive now and which has not expired: /me fails with "User
\* account is inactive", and the token still decodes to its claims.
C1_InactiveAfterIssue ==
    (/\ HeldUnexpired
     /\ \E u \in users : u.id = held.claims.user_id /\ ~u.is_active)
    => /\ get_current_user(held, users, now) = inactive_exception
       /\ inactive_exception.detail = "User account is inactive"
       /\ verify_token(held, now) = held.claims

C1_Witness ==
    /\ resp.op = "me" /\ resp.with_held
    /\ resp.result = inactive_exception
    /\ HeldUnexpired /\ ~orphaned
    /\ \E u \in users : u.id = held.claims.user_id /\ ~u.is_active

\* C2: login answers with a token only when a user matches the identifier,
\* the password is the one that user's hash was made from and the user is
\* active; the token's claims are sub = username, user_id = id and exp.
C2_TokenOnlyForVerifiedActive ==
    \A ident \in Identifiers, pw \in Passwords :
        LET r == LoginResponse(users, ident, pw, now) IN
        (r.status = 200) =>
            \E u \in users :
                /\ u.username = ident \/ u.email = ident
                /\ Matches(u, pw)
                /\ u.is_active
                /\ r.access_token.claims =
                       [sub |-> u.username, user_id |-> u.id,
                        exp |-> now + ACCESS_TOKEN_EXPIRE_MINUTES * 60]
                /\ verify_token(r.access_token, now) = r.access_token.claims

C2_Witness ==
    /\ resp.op = "login" /\ resp.status = 200
    /\ \E u \in users :
          /\ u.username = resp.username /\ u.is_active
          /\ resp.access_token.claims =
                 [sub |-> u.username, user_id |-> u.id,
                  exp |-> now + ACCESS_TOKEN_EXPIRE_MINUTES * 60]

\* C3: register, login, /me: the user a registration created logs in with
\* its username and password, and /me on the token returns the row with the
\* registered id and username; every active user that logs in with its
\* password gets a token that resolves to itself, and two users get
\* different tokens.
C3_RoundTrip ==
    /\ (resp.op = "register" /\ resp.status = 201) =>
          LET r == LoginResponse(users, resp.body.username, resp.password, now) IN
          /\ r.status = 200
          /\ LET w == get_current_user(r.access_token, users, now) IN
             /\ w.ok
             /\ w.user.id = resp.body.id
             /\ w.user.username = resp.body.username
    /\ \A u \in users, pw \in Passwords :
          (u.is_active /\ Matches(u, pw)) =>
              LET r == LoginResponse(users, u.username, pw, now) IN
              /\ r.status = 200
              /\ get_current_user(r.access_token, users, now) = Resolved(u)
    /\ \A u, v \in users, pw, pv \in Passwords :
          (u # v /\ u.is_active /\ v.is_active /\ Matches(u, pw) /\ Matches(v, pv)) =>
              LoginResponse(users, u.username, pw, now).access_token
                  # LoginResponse(users, v.username, pv, now).access_token

C3_Witness ==
    /\ resp.op = "me" /\ resp.with_held /\ resp.result.ok
    /\ resp.result.user.id = held.claims.user_id
    /\ resp.result.user.username = held.claims.sub
    /\ Cardinality(users) = 2
    /\ \A u \in users : u.is_active /\ u.password_hash # JunkHash

\* C4 as stated: every active user logs in with its e-mail address and its
\* password, whatever else the store holds, and gets a token for itself.
C4_EmailLoginAlways ==
    \A u \in users, pw \in Passwords :
        (u.is_active /\ Matches(u, pw)) =>
            LET r == LoginResponse(users, u.email, pw, now) IN
            /\ r.status = 200
            /\ r.access_token.claims.user_id = u.id

\* C4 amended: ... provided no other user has that e-mail address as its
\* username.
C4_EmailLoginUnlessShadowed ==
    \A u \in users, pw \in Passwords :
        (/\ u.is_active /\ Matches(u, pw)
         /\ \A v \in users \ {u} : v.username # u.email) =>
            LET r == LoginResponse(users, u.email, pw, now) IN
            /\ r.status = 200
            /\ r.access_token.claims.user_id = u.id
            /\ r.access_token.claims.sub = u.username
            /\ verify_token(r.access_token, now) # None

C4_Witness ==
    /\ resp.op = "login" /\ resp.status = 200
    /\ \E u \in users : u.email = resp.username /\ u.username # resp.username
                        /\ resp.access_token.claims.user_id = u.id
    /\ \A v \in users : v.username # resp.username

\* C5: a login with an identifier no user has and a login with an existing
\* user's identifier and a password that is not that user's get the same
\* failure, "Incorrect username or password".
C5_SameFailure ==
    \A unknown, known \in Identifiers, pw, wrong \in Passwords :
        (/\ LoginUser(users, unknown) = None
         /\ LoginUser(users, known) # None
         /\ ~ Matches(LoginUser(users, known), wrong)) =>
            /\ LoginResponse(users, unknown, pw, now) = InvalidCredentials
            /\ LoginResponse(users, known, wrong, now)
                   = LoginResponse(users, unknown, pw, now)

\* C6: login reports "User account is inactive" exactly when the user is
\* found, the password is the user's and the user is inactive; an inactive
\* user with another password gets "Incorrect username or password".
C6_InactiveOnlyAfterPassword ==
    \A ident \in Identifiers, pw \in Passwords :
        LET u == LoginUser(users, ident)
            r == LoginResponse(users, ident, pw, now)
        IN /\ (Outcome(r) = AccountInactive)
                 <=> (u # None /\ Matches(u, pw) /\ ~u.is_active)
           /\ (u # None /\ ~u.is_active /\ ~Matches(u, pw))
                 => Outcome(r) = InvalidCredentials

\* C7: /me rejects with "Could not validate credentials" when the token
\* does not decode, when it has no subject (whatever its user_id) or when
\* no user is located; with "User account is inactive" only when the located
\* user is inactive; and resolves to the located user otherwise.
C7_DecisionTable ==
    \A tok \in Presentable(now) :
        LET p == verify_token(tok, now)
            r == get_current_user(tok, users, now)
        IN IF p = None THEN r = credentials_exception
           ELSE IF "sub" \notin DOMAIN p THEN r = credentials_exception
           ELSE LET located ==
                        IF "user_id" \in DOMAIN p /\ p.user_id # 0
                        THEN {u \in users : u.id = p.user_id}
                        ELSE {u \in users : u.username = p.sub}
                IN /\ (located = {}) => r = credentials_exception
                   /\ \A u \in located :
                        /\ ~u.is_active => r = inactive_exception
                        /\ u.is_active => r = Resolved(u)
                   /\ (r = inactive_exception) => \E u \in located : ~u.is_active
                   /\ credentials_exception.detail # inactive_exception.detail

C7_Witness ==
    /\ resp.op = "me" /\ resp.kind = "no_sub"
    /\ resp.result = credentials_exception
    /\ \A i \in Ids : \E u \in users : u.id = i /\ u.is_active

\* C8: a valid token that carries a user_id, whatever its value, is resolved
\* through the row with that id and never through the subject.
C8_ByIdWheneverPresent ==
    \A tok \in Presentable(now) :
        LET p == verify_token(tok, now) IN
        (p # None /\ "sub" \in DOMAIN p /\ "user_id" \in DOMAIN p) =>
            LET row == {u \in users : u.id = p.user_id}
                r == get_current_user(tok, users, now)
            IN /\ (row = {}) => r = credentials_exception
               /\ \A u \in row : r = (IF u.is_active THEN Resolved(u)
                                      ELSE inactive_exception)

\* C9: the held token names a row by id whose username is no longer the
\* token's subject: /me still resolves to that row.
C9_RenamedStillResolves ==
    (/\ HeldUnexpired
     /\ \E u \in users : u.id = held.claims.user_id
                         /\ u.username # held.claims.sub /\ u.is_active)
    => \E u \in users :
          /\ u.id = held.claims.user_id
          /\ get_current_user(held, users, now) = Resolved(u)

C9_Witness ==
    /\ resp.op = "me" /\ resp.with_held /\ resp.result.ok
    /\ resp.result.user.id = held.claims.user_id
    /\ resp.result.user.username # held.claims.sub
    /\ ~orphaned /\ Cardinality(users) = 1

\* C10: once the row the held token names by id has been deleted, /me on
\* that token is rejected with "Could not validate credentials", whatever
\* happened to the store since.
C10_DeletedNeverResolves ==
    (held # None /\ orphaned) =>
        get_current_user(held, users, now) = credentials_exception

\* C11: a register request with a username some user has is answered 400
\* "Username already registered"; one with a free username and an e-mail
\* address some user has is answered 400 "Email already registered"; in both
\* cases the users table is left as it was.
C11_DuplicateRejected ==
    [][(resp'.op = "register") =>
          /\ (\E u \in users : u.username = resp'.username) =>
                 /\ resp'.status = 400
                 /\ resp'.detail = "Username already registered"
                 /\ users' = users
          /\ (/\ \A u \in users : u.username # resp'.username
              /\ \E u \in users : u.email = resp'.email) =>
                 /\ resp'.status = 400
                 /\ resp'.detail = "Email already registered"
                 /\ users' = users]_vars

C11_Witness ==
    /\ resp.op = "register" /\ resp.status = 400
    /\ resp.detail = "Email already registered"
    /\ \A u \in users : u.username # resp.username
    /\ \E u \in users : u.email = resp.email

\* C12: a register request whose username is some user's and whose e-mail
\* address is some user's (the same user or another) is answered "Username
\* already registered".
C12_UsernameReportedFirst ==
    [][(/\ resp'.op = "register"
        /\ \E u \in users : u.username = resp'.username
        /\ \E v \in users : v.email = resp'.email)
       => resp'.detail = "Username already registered"]_vars

C12_Witness ==
    /\ resp.op = "register"
    /\ resp.detail = "Username already registered"
    /\ \E u, v \in users :
          u # v /\ u.username = resp.username /\ v.email = resp.email

\* C13: in every reachable state of the users table, after any sequence of
\* register, create_user, update_user and delete_user, no two rows have the
\* same username and no two have the same e-mail address.
C13_UniqueUsernameEmail ==
    \A u \in users : \A v \in users \ {u} :
        u.username # v.username /\ u.email # v.email

C13_Witness ==
    /\ resp.op = "update_user" /\ resp.raised = "IntegrityError"
    /\ Cardinality(users) = 2
    /\ \A u \in users : \A v \in users \ {u} :
          u.username # v.username /\ u.email # v.email

\* C14: two register requests with the same username or the same e-mail
\* address, served at the same time and both answered: one got 201 and the
\* other 400 (a duplicate-username or duplicate-email answer), and neither
\* ended on an exception the handler did not convert.
C14_OneCreatedOneConflict ==
    \A v \in Workers : \A w \in Workers \ {v} :
        (/\ pending[v].pc = "done" /\ pending[w].pc = "done"
         /\ \A x \in Workers \ {v, w} : pending[x].pc = "idle"
         /\ \/ pending[v].username = pending[w].username
            \/ pending[v].email = pending[w].email)
        => /\ {pending[v].status, pending[w].status} = {201, 400}
           /\ pending[v].status # 500 /\ pending[w].status # 500

\* C15: a token issued with a ttl of -1 second does not decode at the time
\* of issue or later; every token whose exp is before the current time does
\* not decode, and /me on it is rejected with "Could not validate
\* credentials", also when the user it names exists and is active.
C15_ExpiredNeverDecodes ==
    /\ \A c \in ClaimSets : \A t2 \in {now, now + 1, now + MaxNow} :
          verify_token(create_access_token(c, [seconds |-> -1], now), t2) = None
    /\ \A tok \in Presentable(now) :
          (/\ "header" \in DOMAIN tok
           /\ "exp" \in DOMAIN tok.claims
           /\ tok.claims.exp < now)
          => /\ verify_token(tok, now) = None
             /\ get_current_user(tok, users, now) = credentials_exception

C15_Witness ==
    /\ resp.op = "me" /\ resp.with_held
    /\ held.claims.exp < now /\ ~orphaned
    /\ resp.result = credentials_exception
    /\ \E u \in users : /\ u.id = held.claims.user_id
                         /\ u.username = held.claims.sub
                         /\ u.is_active

\* C16 as stated: for every claim set c, a token issued from c with the
\* default ttl decodes, at the time of issue, to claims that hold every key
\* of c with the caller's value, and exp = time of issue + 30 minutes.
C16_RoundTripAll ==
    \A c \in CodecClaimSets :
        LET p == verify_token(create_access_token(c, None, now), now) IN
        /\ p # None
        /\ \A k \in DOMAIN c : k \in DOMAIN p /\ p[k] = c[k]
        /\ p.exp = now + ACCESS_TOKEN_EXPIRE_MINUTES * 60

\* C16 amended: ... for every claim set c whose sub, when present, is a
\* string and which has no exp of its own; decoded at any time up to exp,
\* the claims are exactly those of c and exp.
C16_RoundTripStringSub ==
    \A c \in CodecClaimSets :
        (/\ "sub" \in DOMAIN c => c.sub # NullSub
         /\ "exp" \notin DOMAIN c)
        => \A t2 \in {now, now + ACCESS_TOKEN_EXPIRE_MINUTES * 60} :
              LET p == verify_token(create_access_token(c, None, now), t2) IN
              /\ p # None
              /\ DOMAIN p = DOMAIN c \cup {"exp"}
              /\ \A k \in DOMAIN c : p[k] = c[k]
              /\ p.exp = now + ACCESS_TOKEN_EXPIRE_MINUTES * 60

C16_Witness ==
    /\ resp.op = "me" /\ ~resp.with_held
    /\ resp.kind = "sub_only" /\ resp.result.ok
    /\ now > 0

\* C17: create_access_token sets exp to the time of issue plus the ttl for
\* every ttl passed (positive, zero, negative), and to the time of issue
\* plus 30 minutes when none is passed.
C17_ExpiryIsNowPlusTtl ==
    \A c \in ClaimSets :
        /\ \A e \in Deltas \ {None} :
              create_access_token(c, e, now).claims.exp = now + e.seconds
        /\ create_access_token(c, None, now).claims.exp
              = now + ACCESS_TOKEN_EXPIRE_MINUTES * 60

\* C18: a token signed with another key, or with the configured key and
\* another algorithm, does not decode, and /me on it is rejected with
\* "Could not validate credentials".
C18_OnlyOurSignature ==
    \A tok \in Presentable(now) :
        (/\ "header" \in DOMAIN tok
         /\ tok.signature.key # SECRET_KEY \/ tok.signature.alg # ALGORITHM)
        => /\ verify_token(tok, now) = None
           /\ get_current_user(tok, users, now) = credentials_exception

C18_Witness ==
    /\ resp.op = "me" /\ resp.kind = "not_ours"
    /\ resp.result = credentials_exception
    /\ \E u \in users : u.id = 1 /\ u.username = "alice" /\ u.is_active

\* C19: for every token string on which jwt.decode raises (empty, malformed,
\* wrong signature, wrong algorithm, expired), verify_token returns None, the
\* same value whatever the cause, and no exception leaves it.
C19_DecodeTotal ==
    \A tok \in Presentable(now) :
        (jwt_decode(tok, SECRET_KEY, ALGORITHM, now).raised # "")
        => verify_token(tok, now) = None

C19_Witness ==
    /\ resp.op = "me" /\ resp.kind = "malformed"
    /\ resp.result = credentials_exception
    /\ users # {}

\* C20: for every password p, the empty string and non-ASCII text
\* included, hash_password(p) returns a digest and verify_password(p, that
\* digest) is true.
C20_VerifyOwnHash ==
    (resp.op = "hash_password") =>
        /\ resp.result.ident = "$2b$"
        /\ VerifyOutcome(resp.password, resp.result) = "true"

\* C21: verify_password(p, digest) is false whenever the digest was returned
\* by hash_password for a text p2 other than p, whatever the two texts are
\* (other case, other last character, any admitted length).
C21_OtherPasswordRejected ==
    (resp.op = "verify_password") =>
        \A i \in 1..Len(resp.issued) :
            (/\ resp.issued[i].result = resp.hashed_password
             /\ resp.issued[i].password # resp.plain_password)
            => resp.result = "false"

\* C22: verify_password returns true or false and never raises; for a stored
\* string that is not a well-formed digest it returns false.
C22_VerifyNeverRaises ==
    (resp.op = "verify_password") =>
        /\ resp.result \in {"true", "false"}
        /\ (resp.hashed_password = JunkHash) => resp.result = "false"

\* C27: two calls of hash_password on the same text return two different
\* digests, and the text verifies against both.
C27_FreshSaltPerCall ==
    \A i \in 1..Len(Issued) : \A j \in 1..Len(Issued) :
        (i < j /\ Issued[i].password = Issued[j].password)
        => /\ Issued[i].result.ident = "$2b$"
           /\ Issued[j].result.ident = "$2b$"
           /\ Issued[i].result # Issued[j].result
           /\ VerifyOutcome(Issued[i].password, Issued[i].result) = "true"
           /\ VerifyOutcome(Issued[j].password, Issued[j].result) = "true"

\* C23: a register request answered 201 adds exactly one row, with the
\* request's username and e-mail address, active, whose stored hash is a
\* bcrypt digest that the request's password verifies against; the rows that
\* were there are unchanged; the body of the answer, and the body of every
\* successful /me answer, has neither a password nor a password hash.
C23_RegisterCreatesOne ==
    [][/\ (resp'.op = "register" /\ resp'.status = 201) =>
             \E u \in users' \ users :
                /\ users' = users \cup {u}
                /\ u.username = resp'.username /\ u.email = resp'.email
                /\ u.is_active
                /\ u.password_hash.ident = "$2b$"
                /\ verify_password(resp'.password, u.password_hash)
                /\ {"password", "password_hash"} \cap DOMAIN resp'.body = {}
                /\ resp'.body.id = u.id
                /\ resp'.body.username = u.username
                /\ resp'.body.email = u.email
                /\ resp'.body.is_active
       /\ (resp'.op = "me" /\ resp'.result.ok) =>
             /\ {"password", "password_hash"} \cap DOMAIN resp'.body = {}
             /\ resp'.body.id = resp'.result.user.id]_vars

C23_Witness ==
    /\ resp.op = "register" /\ resp.status = 201
    /\ Cardinality(users) = 2
    /\ \E u \in users : /\ u.id = resp.body.id
                         /\ u.username = resp.username
                         /\ verify_password(resp.password, u.password_hash)

\* C24: no update_user call changes the id of a row: the ids in the table
\* after the call are the ids before it.
C24_IdNeverChanges ==
    [][(resp'.op = "update_user") =>
          {u.id : u \in users'} = {u.id : u \in users}]_vars

\* C26: delete_user(id) returns true exactly when a row had that id;
\* afterwards no row has it and the other rows are as they were; when no
\* row had it the table is unchanged.
C26_DeleteExactlyThatRow ==
    [][(resp'.op = "delete_user") =>
          /\ resp'.result = (\E u \in users : u.id = resp'.user_id)
          /\ get_user_by_id(users', resp'.user_id) = None
          /\ users' = {u \in users : u.id # resp'.user_id}
          /\ (~ resp'.result) => users' = users]_vars

C26_Witness ==
    /\ resp.op = "delete_user" /\ resp.result
    /\ Cardinality(users) = 1
    /\ \A u \in users : u.id # resp.user_id

\* What update_user(user_id, kwargs) sets on row u: the keywords that are
\* columns of the row take the supplied values, the others keep theirs.
Changed(u, kwargs) ==
    [id |-> IF "id" \in DOMAIN kwargs THEN kwargs.id ELSE u.id,
     username |-> IF "username" \in DOMAIN kwargs THEN kwargs.username
                  ELSE u.username,
     email |-> IF "email" \in DOMAIN kwargs THEN kwargs.email ELSE u.email,
     password_hash |-> IF "password_hash" \in DOMAIN kwargs
                       THEN kwargs.password_hash ELSE u.password_hash,
     is_active |-> IF "is_active" \in DOMAIN kwargs THEN kwargs.is_active
                   ELSE u.is_active]

\* The changed row has the id, the username or the e-mail address of
\* another row.
Collides(new, others) ==
    \E v \in others :
        v.id = new.id \/ v.username = new.username \/ v.email = new.email

\* C25 as stated: update_user on an id no row has returns None and leaves
\* the table as it was; on an id some row has it sets the supplied columns
\* on that row, ignores the other keywords, leaves the other rows as they
\* were and returns the updated row.
C25_UpdateSetsSupplied ==
    [][(resp'.op = "update_user") =>
       \A user_id \in Ids, kwargs \in Kwargs :
          update_user(user_id, kwargs) =>
             IF \A u \in users : u.id # user_id
             THEN users' = users /\ resp'.result = None
             ELSE \E u \in users :
                    /\ u.id = user_id
                    /\ users' = (users \ {u}) \cup {Changed(u, kwargs)}
                    /\ resp'.result = Changed(u, kwargs)]_vars

\* C25 amended: ... provided the changed row does not take the id, the
\* username or the e-mail address of another row; when it does, the call
\* raises the uniqueness violation and the table is left as it was.
C25_UpdateSetsUnlessCollision ==
    [][(resp'.op = "update_user") =>
       \A user_id \in Ids, kwargs \in Kwargs :
          update_user(user_id, kwargs) =>
             IF \A u \in users : u.id # user_id
             THEN users' = users /\ resp'.result = None
             ELSE \E u \in users :
                    /\ u.id = user_id
                    /\ IF Collides(Changed(u, kwargs), users \ {u})
                       THEN /\ users' = users
                            /\ resp'.raised = "IntegrityError"
                       ELSE /\ users' = (users \ {u}) \cup {Changed(u, kwargs)}
                            /\ resp'.result = Changed(u, kwargs)
                            /\ resp'.raised = ""]_vars

C25_Witness ==
    /\ resp.op = "update_user" /\ resp.found /\ resp.raised = ""
    /\ resp.ignored = {"nonexistent_field"}
    /\ resp.result \in users
    /\ Cardinality(users) = 2

\* The shapes C28 names: a field is missing, the username has fewer than 3
\* or more than 50 characters, the password fewer than 6, or the e-mail
\* address is not of the form of one.
IllShaped(body) ==
    \/ {"username", "email", "password"} \ DOMAIN body # {}
    \/ Len(body.username) < 3 \/ Len(body.username) > 50
    \/ Len(body.password) < 6
    \/ ~ IsEmail(body.email)

\* C28: a register request with an ill-shaped body is answered with the
\* validation error (422), not with a duplicate-username or duplicate-email
\* answer, and the users table is left as it was.
C28_IllShapedRejected ==
    [][(resp'.op \in {"post_register", "register"}) =>
       \A body \in RegisterBodies, s \in Salts :
          (IllShaped(body) /\ post_register(body, s)) =>
             /\ resp'.op = "post_register"
             /\ resp'.status = 422
             /\ resp'.detail = "ValidationError"
             /\ users' = users]_vars

C28_Witness ==
    /\ resp.op = "post_register" /\ resp.status = 422
    /\ resp.loc = {"password"}
    /\ \E u \in users : u.username = "alice"

\* C30: login looks the identifier up as a username first and reads the
\* e-mail column only when no user has it as username.  When the identifier is
\* user A's username (whether or not it is also some user B's e-mail address)
\* the answer is the one a store holding A alone would give: the password is
\* verified against A's hash only, and a token that is issued names A.
C30_UsernameTakesPrecedence ==
    /\ (resp.op = "login") =>
          /\ resp.lookups[1] = "username"
          /\ (Len(resp.lookups) > 1) =>
                /\ resp.lookups = <<"username", "email">>
                /\ \A u \in users : u.username # resp.username
    /\ \A A \in users, pw \in Passwords :
          LET r == LoginResponse(users, A.username, pw, now) IN
          /\ r = LoginResponse({A}, A.username, pw, now)
          /\ (r.status = 200) =>
                /\ r.access_token.claims.user_id = A.id
                /\ r.access_token.claims.sub = A.username
                /\ verify_password(pw, A.password_hash)
          /\ (r.status = 200) <=>
                /\ VerifyOutcome(pw, A.password_hash) # "raise"
                /\ verify_password(pw, A.password_hash)
                /\ A.is_active

\* A login with an identifier that is A's username and B's e-mail address,
\* the two having different passwords, has issued a token for A.
C30_Witness ==
    /\ resp.op = "login" /\ resp.status = 200
    /\ resp.lookups = <<"username">>
    /\ \E A \in users, B \in users :
          /\ A # B
          /\ A.username = resp.username /\ B.email = resp.username
          /\ A.password_hash # B.password_hash
          /\ resp.access_token.claims.user_id = A.id

\* What holds of a request to /me at any point of its run: the statements it
\* has run are an initial part of decode, subject, lookup, active; it has
\* read the store once if it has reached the lookup and not at all before; a
\* token that does not decode ends it at the first statement and one without
\* a subject at the second; it is rejected for a missing row at the lookup,
\* for an inactive row only after a row was found, and resolved only after
\* all four.
ResolverShape(p, t) ==
    LET n == Len(p.steps)
        payload == verify_token(p.token, t) IN
    /\ p.steps = SubSeq(ResolverOrder, 1, n)
    /\ n = CASE p.pc = "start" -> 0
             [] p.pc = "token_decoded" -> 1
             [] p.pc = "subject_present" -> 2
             [] p.pc = "identity_located" -> 3
             [] p.pc = "resolved" -> 4
             [] p.pc = "rejected" -> IF n \in 1..4 THEN n ELSE -1
    /\ p.reads = (IF n >= 3 THEN 1 ELSE 0)
    /\ (payload = None) =>
          /\ p.reads = 0
          /\ (n >= 1) => (p.pc = "rejected" /\ n = 1)
    /\ (payload # None /\ SubIsNone(payload)) =>
          /\ p.reads = 0
          /\ (n >= 2) => (p.pc = "rejected" /\ n = 2)
    /\ (p.pc \in {"resolved", "rejected"}) <=> (p.result # None)
    /\ (p.pc = "resolved") =>
          /\ p.user # None /\ p.user.is_active
          /\ p.result = [ok |-> TRUE, status |-> 200, user |-> p.user]
    /\ (p.pc = "rejected") =>
          /\ p.result \in {credentials_exception, inactive_exception}
          /\ (n = 3) => (p.user = None /\ p.result = credentials_exception)
          /\ (p.result = inactive_exception) <=> (n = 4)
          /\ (n = 4) => (p.user # None /\ ~ p.user.is_active)

\* C29: a resolution runs decode, subject check, user lookup and active check
\* in that order and ends in exactly one of resolved(user) and
\* rejected(cause).  Nothing runs after the end: the request only replies,
\* with that outcome.  So the store is not read when the token does not
\* decode or has no subject, and a missing row is reported before the active
\* flag is looked at.
C29_ResolverStateMachine ==
    [][\A w \in Resolvers :
          /\ (pending'[w].pc # "idle") => ResolverShape(pending'[w], now')
          /\ (pending[w].pc \in {"start", "token_decoded", "subject_present",
                                 "identity_located"}) =>
                \/ pending'[w] = pending[w]
                \/ /\ pending'[w].token = pending[w].token
                   /\ pending'[w].steps =
                         Append(pending[w].steps,
                                ResolverOrder[Len(pending[w].steps) + 1])
          /\ (pending[w].pc \in {"resolved", "rejected"}) =>
                \/ pending'[w] = pending[w]
                \/ /\ pending'[w].pc = "idle"
                   /\ resp' = [op |-> "me_reply", outcome |-> pending[w].pc,
                               steps |-> pending[w].steps,
                               reads |-> pending[w].reads,
                               result |-> pending[w].result]]_vars

\* One request has been answered with the user after all four statements,
\* and the next one stands rejected for its missing subject, the store
\* unread although it holds the user the token names.
C29_Witness ==
    /\ resp.op = "me_reply" /\ resp.outcome = "resolved"
    /\ resp.steps = ResolverOrder /\ resp.reads = 1
    /\ \E w \in Resolvers :
          /\ pending[w].pc = "rejected"
          /\ pending[w].steps = <<"decode", "subject">>
          /\ pending[w].reads = 0
          /\ "user_id" \in DOMAIN pending[w].token.claims
          /\ get_user_by_id(users, pending[w].token.claims.user_id) # None

\* What the token decodes to at the present time.
Decode(token) == verify_token(token, now)

\* C31: what a token decodes to depends on the token, the key and the time
\* alone.  A step that leaves the clock alone -- a registration, an update, a
\* deactivation, a deletion, a login, a request to /me -- leaves the decoding
\* of the held token as it was, and at every moment the token a login issued
\* decodes to its claims until its expiry and to nothing after, whatever has
\* become of its user.
C31_DecodeIgnoresStore ==
    [][/\ (held # None /\ held' = held /\ now' = now) =>
              Decode(held)' = Decode(held)
       /\ (held' # None) =>
              Decode(held)' = (IF held'.claims.exp < now' THEN None
                               ELSE held'.claims)]_vars

\* The row the held token names has just been deleted, and the token, not yet
\* expired, decodes to its claims.
C31_Witness ==
    /\ resp.op = "delete_user" /\ resp.result
    /\ HeldUnexpired /\ orphaned
    /\ resp.user_id = held.claims.user_id
    /\ users # {}
    /\ Decode(held) = held.claims

\* Tokens presented more than once: by id and by subject alone, with the
\* default lifetime and with one that outlasts a step of the clock.
ReusedTokens(t) ==
    {create_access_token([sub |-> s, user_id |-> 1], e, t) :
         s \in Usernames, e \in {None, [seconds |-> 3600]}}
    \cup {create_access_token([sub |-> s], None, t) : s \in Usernames}

\* C32: a login and a request to /me, answered with success or with an error,
\* leave the users table as it was; and a token is not used up: over any step
\* that leaves the table alone -- a request to /me with that token among them
\* -- a token that decodes after the step as it did before resolves after the
\* step to what it resolved to before.
C32_ReadOnlyAndReusable ==
    [][/\ (resp'.op \in {"login", "me"}) => users' = users
       /\ (resp'.op \in {"login", "me", "tick"} /\ users' = users) =>
             \A tok \in ReusedTokens(now) :
                 (verify_token(tok, now') = verify_token(tok, now)) =>
                     get_current_user(tok, users', now')
                         = get_current_user(tok, users, now)]_vars

\* /me has been answered with a user after time has passed, the table holding
\* two users.
C32_Witness ==
    /\ resp.op = "me" /\ resp.result.ok
    /\ resp.kind = "sub_and_id"
    /\ resp.body.id = resp.result.user.id
    /\ now > 0
    /\ Cardinality(users) = 2

\* payload.get(key) gives the same in both payloads.
SameClaim(p, q, key) ==
    /\ (key \in DOMAIN p) = (key \in DOMAIN q)
    /\ (key \in DOMAIN p) => p[key] = q[key]

\* C33: two tokens that decode, with the same sub and the same user_id (or
\* both without), resolve to the same outcome on the same table, whatever
\* other claims they carry and whenever they expire.
C33_OnlySubAndUserIdMatter ==
    \A t1 \in ResolverTokens(now), t2 \in ResolverTokens(now) :
        LET p == verify_token(t1, now)
            q == verify_token(t2, now) IN
        (/\ p # None /\ q # None
         /\ SameClaim(p, q, "sub") /\ SameClaim(p, q, "user_id"))
        => get_current_user(t1, users, now) = get_current_user(t2, users, now)

\* A request whose token carries two more claims besides sub and user_id
\* stands resolved, to the user the token without them resolves to.
C33_Witness ==
    \E w \in Resolvers :
        /\ pending[w].pc = "resolved"
        /\ "extra_claim" \in DOMAIN pending[w].token.claims
        /\ "user_id" \in DOMAIN pending[w].token.claims
        /\ pending[w].user \in users
        /\ get_current_user(
               create_access_token([sub |-> pending[w].token.claims.sub,
                                    user_id |-> pending[w].token.claims.user_id],
                                   None, now), users, now)
             = pending[w].result

\* C34: the active flag is the one of the row as the table holds it when the
\* request looks the user up, never one read earlier.  The token a login
\* issued, not yet expired, names its user in every state (accounts are only
\* switched off and on here) and resolves to that user when the flag is true
\* and is rejected with "User account is inactive" when it is false; a
\* request in flight loads the row from the table as it is at that moment
\* and is answered by the flag of the row it loaded.
C34_FlagReadAfresh ==
    [][/\ (held' # None /\ held'.claims.exp >= now') =>
              LET u == get_user_by_id(users', held'.claims.user_id) IN
              /\ u # None
              /\ u.username = held'.claims.sub
              /\ get_current_user(held', users', now')
                     = (IF u.is_active THEN Resolved(u) ELSE inactive_exception)
       /\ \A w \in Workers :
              /\ (pending[w].pc = "subject_present"
                  /\ pending'[w].pc # "subject_present") =>
                     pending'[w].user = LocateUser(users, pending[w].payload)
              /\ (pending'[w].pc = "resolved") =>
                     /\ pending'[w].user.is_active
                     /\ pending'[w].result = Resolved(pending'[w].user)
              /\ (pending'[w].pc = "rejected" /\ pending'[w].user # None) =>
                     /\ ~ pending'[w].user.is_active
                     /\ pending'[w].result = inactive_exception]_vars

\* Two requests with the held token, not yet expired: one found the user
\* switched off and stands rejected, the other found the same user switched
\* on again and stands resolved.
C34_Witness ==
    /\ HeldUnexpired
    /\ \E v \in Workers, w \in Workers :
          /\ pending[v].pc = "rejected" /\ pending[w].pc = "resolved"
          /\ pending[v].token = held /\ pending[w].token = held
          /\ pending[v].result = inactive_exception
          /\ pending[w].user \in users
          /\ pending[w].user.id = held.claims.user_id
          /\ pending[v].user = [pending[w].user EXCEPT !.is_active = FALSE]

\* C35: whatever exp the caller put among the claims, the token's exp is the
\* time of issue plus the ttl passed, or plus 30 minutes when none was
\* passed; the other claims are the caller's, and the caller's dict is after
\* the call what it was before.
C35_ExpAlwaysComputed ==
    (resp.op = "create_access_token") =>
        /\ resp.token.claims.exp =
              (IF resp.expires_delta = None
               THEN resp.at + ACCESS_TOKEN_EXPIRE_MINUTES * 60
               ELSE resp.at + resp.expires_delta.seconds)
        /\ \A k \in DOMAIN resp.data \ {"exp"} :
              /\ k \in DOMAIN resp.token.claims
              /\ resp.token.claims[k] = resp.data[k]
        /\ resp.data_after = resp.data

\* C36: a token that decodes and has a subject and no user_id resolves to the
\* user that has the subject as username when the request looks it up,
\* whoever had it when the token was issued; with no such user it is
\* rejected.
C36_SubjectOnlyFollowsUsername ==
    [][/\ \A tok \in SubjectOnlyTokens(now') :
             LET holder == get_user_by_username(users', tok.claims.sub) IN
             get_current_user(tok, users', now')
                 = (IF holder = None THEN credentials_exception
                    ELSE IF holder.is_active THEN Resolved(holder)
                    ELSE inactive_exception)
       /\ \A w \in Workers :
             /\ (pending[w].pc = "subject_present"
                 /\ pending'[w].pc # "subject_present"
                 /\ "user_id" \notin DOMAIN pending[w].payload) =>
                    pending'[w].user
                        = get_user_by_username(users, pending[w].payload.sub)
             /\ (pending'[w].pc = "resolved"
                 /\ "user_id" \notin DOMAIN pending'[w].payload) =>
                    /\ pending'[w].user.username = pending'[w].payload.sub
                    /\ pending'[w].result = Resolved(pending'[w].user)]_vars

\* Two requests with the same subject-only token stand resolved to two
\* users: the one that had the username first, which has it no longer (it was
\* renamed or deleted), and the one that has it now.
C36_Witness ==
    \E v \in Workers, w \in Workers :
        /\ pending[v].pc = "resolved" /\ pending[w].pc = "resolved"
        /\ pending[v].token = pending[w].token
        /\ "user_id" \notin DOMAIN pending[v].token.claims
        /\ pending[w].user \in users
        /\ pending[v].user.id # pending[w].user.id
        /\ pending[v].user.email # pending[w].user.email
        /\ \A u \in users : u.id = pending[v].user.id =>
                               u.username # pending[v].token.claims.sub

\* Keys and algorithms a token can be signed with.
SigningKeys == {SECRET_KEY, "wrong-secret-key", "rotated-key"}

SigningAlgorithms == {ALGORITHM, "HS384"}

\* The configuration as the operations show it at this moment: the key, the
\* algorithm and the lifetime create_access_token puts into a token, and the
\* keys and algorithms verify_token accepts a signature of.
IssueConfig ==
    LET tok == create_access_token([sub |-> "alice"], None, now) IN
    [key |-> tok.signature.key, alg |-> tok.header.alg,
     minutes |-> (tok.claims.exp - now) \div 60]

DecodeConfig ==
    {kv \in SigningKeys \X SigningAlgorithms :
        verify_token(Encode([sub |-> "alice", exp |-> now], kv[1], kv[2]), now) # None}

\* C37: after every register, login, /me and store operation and at every
\* time, tokens are issued with the key, the algorithm HS256 and the 30
\* minutes the module was loaded with, and decoded with that key and that
\* algorithm and no other; a token a login has just handed out carries them
\* and decodes.
C37_ConfigurationFixed ==
    /\ IssueConfig = [key |-> SECRET_KEY, alg |-> "HS256", minutes |-> 30]
    /\ IssueConfig = [key |-> SECRET_KEY, alg |-> ALGORITHM,
                      minutes |-> ACCESS_TOKEN_EXPIRE_MINUTES]
    /\ DecodeConfig = {<<IssueConfig.key, IssueConfig.alg>>}
    /\ (resp.op = "login" /\ resp.status = 200) =>
          /\ resp.access_token.header.alg = ALGORITHM
          /\ resp.access_token.signature = Sign(SECRET_KEY, ALGORITHM,
                                                resp.access_token.header,
                                                resp.access_token.claims)
          /\ resp.access_token.claims.exp = now + ACCESS_TOKEN_EXPIRE_MINUTES * 60
          /\ verify_token(resp.access_token, now) = resp.access_token.claims

\* A login has handed out a token after two accounts were registered, one of
\* them was changed and time has passed.
C37_Witness ==
    /\ resp.op = "login" /\ resp.status = 200
    /\ resp.access_token.signature.key = SECRET_KEY
    /\ now > 0
    /\ Cardinality(users) = 2
    /\ \E u \in users : ~ u.is_active

====
